---- MODULE Spec2Model ----
(***************************************************************************)
(* A model of the execution core of rjvm: the bounded operand stack        *)
(* (vm/src/value_stack.rs), the managed array over raw 8-byte slots        *)
(* (vm/src/array.rs) and the machine's class resolution, invocation and    *)
(* string helpers (vm/src/vm.rs).                                          *)
(*                                                                         *)
(* Values are records [kind, lo, hi]: the variant of the Rust enum Value   *)
(* and its payload as two 32-bit words (lo = the low four bytes of the     *)
(* little-endian representation, hi = the high four bytes).  A 32-bit      *)
(* payload (Int, Float) has hi = 0; Null has no payload.                   *)
(***************************************************************************)
EXTENDS Integers, Sequences, FiniteSets, TLC

VARIABLES
    capacity,   \* ValueStack: stack.capacity(), fixed by with_max_size
    stack,      \* ValueStack: the Vec<Value>, bottom first
    pre,        \* the stack as it was when the last operation was called
    array,      \* Array: the storage block [length, elements_type, slots]
    apre,       \* the storage block as it was when the last operation was called
    op,         \* name of the last operation called
    val,        \* its Value argument (NoValue if none)
    num,        \* its usize argument (0 if none)
    res,        \* its result: "Ok", "Some", "None" or the VmError returned
    ret,        \* the Value it returned (NoValue if none)
    pushed,     \* scenario history: values of the successful pushes, in order
    popped,     \* scenario history: values returned by the successful pops, in order
    resolved,   \* ClassManager: the names of the classes it holds, in order of registration
    statics,    \* Vm.statics: per ClassId the static instance recorded (0: no entry)
    frames,     \* CallStack: the frames, oldest first
    ctl,        \* the calls of Vm methods in progress, outermost first
    result,     \* the result returned by the call that returned last
    ret_info,   \* what the last return of get_or_resolve_class or invoke did
    body_ret,   \* the result the last frame body or native callback returned
    clinit_runs,\* per class name, how often its <clinit> was invoked
    seen_id,    \* per class name, the ClassId its first resolution returned (0: none yet)
    panicked,   \* whether an expect or panic! of vm.rs has aborted the process
    text,       \* the text given to the last create_java_lang_string_instance
    string_object, \* the object that call returned (NoObject if none)
    extracted,  \* what the last extract_str_from_java_lang_string returned
    memory,     \* shared storage: the block at each address given to Array::new
    handles,    \* shared storage: the Array handles held, in order of creation
    origin,     \* per handle, the handle Array::new returned that it is a clone of
    via,        \* the handle the last call was made through
    other       \* the handle the last is_same_as was given (0: none)

vars ==
    <<capacity, stack, pre, array, apre, op, val, num, res, ret, pushed, popped,
      resolved, statics, frames, ctl, result, ret_info, body_ret, clinit_runs,
      seen_id, panicked, text, string_object, extracted, memory, handles, origin,
      via, other>>

stackVars == <<capacity, stack, pre, pushed, popped>>
sharedVars == <<memory, handles, origin, via, other>>
arrayVars == <<array, apre, sharedVars>>
vmVars ==
    <<resolved, statics, frames, ctl, result, ret_info, body_ret, clinit_runs,
      seen_id, panicked>>
stringVars == <<text, string_object, extracted>>
callVars == <<op, val, num, res, ret>>

-----------------------------------------------------------------------------
(* Bounds of the model *)

\* largest max_size given to with_max_size
MaxCap == 6
\* largest max_size given to with_max_size in the push-then-pop scenario
MaxRun == 4
\* largest length given to Array::new
MaxLen == 2
\* depth at which the call stack refuses a new frame
MaxFrames == 2
\* largest number of calls of Vm methods, frame bodies and callbacks in progress
MaxNest == 10
\* largest number of chars of a text
MaxText == 2
\* largest number of handles held on the shared storage
MaxHandles == 3

-----------------------------------------------------------------------------
(* Values *)

ValueInt(n) == [kind |-> "Int", lo |-> n, hi |-> 0]
ValueLong(l, h) == [kind |-> "Long", lo |-> l, hi |-> h]
ValueFloat(bits) == [kind |-> "Float", lo |-> bits, hi |-> 0]
ValueDouble(l, h) == [kind |-> "Double", lo |-> l, hi |-> h]
ValueObject(l, h) == [kind |-> "Object", lo |-> l, hi |-> h]
ValueArray(l, h) == [kind |-> "Array", lo |-> l, hi |-> h]
ValueNull == [kind |-> "Null", lo |-> 0, hi |-> 0]
NoValue == [kind |-> "None", lo |-> 0, hi |-> 0]

\* VmError variants returned by the modelled code
ValidationException == "ValidationException"
ArrayIndexOutOfBoundsException == "ArrayIndexOutOfBoundsException"

\* the values pushed on the operand stack in this model
StackValues == {ValueInt(1), ValueInt(2), ValueLong(3, 0), ValueDouble(0, 0)}

-----------------------------------------------------------------------------
(* ValueStack: the operations as functions of the Vec and its capacity.     *)
(* Each returns [ok, stack, value]: whether it returned Ok, the Vec it      *)
(* leaves behind, and the value it returned.                                *)

\* Vec::with_capacity allocates room for exactly max_size values of the
\* (non-zero-sized) type Value, and nothing below ever reallocates the Vec
with_max_size(max_size) == [stack |-> <<>>, capacity |-> max_size]

\* faulty variant: push without the capacity check
push_unchecked(s, cap, value) ==
    [ok |-> TRUE, stack |-> Append(s, value), value |-> NoValue]

\* faulty variant: push that reports success without storing the value
push_drop(s, cap, value) ==
    IF Len(s) < cap
    THEN [ok |-> TRUE, stack |-> s, value |-> NoValue]
    ELSE [ok |-> FALSE, stack |-> s, value |-> NoValue]

push(s, cap, value) ==
    IF Len(s) < cap
    THEN [ok |-> TRUE, stack |-> Append(s, value), value |-> NoValue]
    ELSE [ok |-> FALSE, stack |-> s, value |-> NoValue]

\* faulty variant: pop taking the entry at the bottom
pop_front(s) ==
    IF Len(s) > 0
    THEN [ok |-> TRUE, stack |-> Tail(s), value |-> Head(s)]
    ELSE [ok |-> FALSE, stack |-> s, value |-> NoValue]

pop(s) ==
    IF Len(s) > 0
    THEN [ok |-> TRUE, stack |-> SubSeq(s, 1, Len(s) - 1), value |-> s[Len(s)]]
    ELSE [ok |-> FALSE, stack |-> s, value |-> NoValue]

\* the match arm Value::Long(_) | Value::Double(_) of pop2
is_wide(value) == value.kind \in {"Long", "Double"}

\* faulty variant: pop2 without the wide-value arm
pop2_always_two(s) ==
    LET p == pop(s) IN
    IF ~p.ok THEN p
    ELSE LET q == pop(p.stack) IN
         [ok |-> q.ok, stack |-> q.stack,
          value |-> IF q.ok THEN p.value ELSE NoValue]

pop2(s) ==
    LET p == pop(s) IN
    IF ~p.ok THEN p
    ELSE IF is_wide(p.value) THEN p
    ELSE LET q == pop(p.stack) IN
         [ok |-> q.ok, stack |-> q.stack,
          value |-> IF q.ok THEN p.value ELSE NoValue]

\* Vec::truncate: keeps the first n entries, no effect when n >= len
vec_truncate(s, n) == IF n < Len(s) THEN SubSeq(s, 1, n) ELSE s

\* faulty variant: truncate refusing a length above the current size
truncate_checks_len(s, cap, n) ==
    IF n > Len(s)
    THEN [ok |-> FALSE, stack |-> s, value |-> NoValue]
    ELSE [ok |-> TRUE, stack |-> vec_truncate(s, n), value |-> NoValue]

truncate(s, cap, n) ==
    IF n > cap
    THEN [ok |-> FALSE, stack |-> s, value |-> NoValue]
    ELSE [ok |-> TRUE, stack |-> vec_truncate(s, n), value |-> NoValue]

\* Vec::get: Some(&value) for an index below len, None otherwise
get(s, index) ==
    IF index < Len(s)
    THEN [ok |-> TRUE, stack |-> s, value |-> s[index + 1]]
    ELSE [ok |-> FALSE, stack |-> s, value |-> NoValue]

\* Index<usize>: the entry at index; Vec's indexing panics at or above len
index_usize(s, i) ==
    IF i < Len(s)
    THEN [ok |-> TRUE, stack |-> s, value |-> s[i + 1]]
    ELSE [ok |-> FALSE, stack |-> s, value |-> NoValue]

\* A run of `self.pop()?` statements: n pops, returning at the first that
\* fails.  values[k] is the value of the k-th pop (value1, value2, ...).
RECURSIVE pop_n(_, _)
pop_n(s, n) ==
    IF n = 0 THEN [ok |-> TRUE, stack |-> s, values |-> <<>>]
    ELSE LET p == pop(s) IN
         IF ~p.ok THEN [ok |-> FALSE, stack |-> p.stack, values |-> <<>>]
         ELSE LET r == pop_n(p.stack, n - 1) IN
              [ok |-> r.ok, stack |-> r.stack,
               values |-> IF r.ok THEN <<p.value>> \o r.values ELSE <<>>]

\* A run of `self.push(..)?` statements ending in `self.push(..)`: the pushes
\* in order, returning at the first that fails.
RECURSIVE push_all(_, _, _)
push_all(s, cap, values) ==
    IF values = <<>> THEN [ok |-> TRUE, stack |-> s, value |-> NoValue]
    ELSE LET r == push(s, cap, Head(values)) IN
         IF ~r.ok THEN r ELSE push_all(r.stack, cap, Tail(values))

\* faulty variant: dup reporting success on an empty stack
dup_ok_on_empty(s, cap) ==
    IF Len(s) < cap
    THEN IF Len(s) = 0
         THEN [ok |-> TRUE, stack |-> s, value |-> NoValue]
         ELSE [ok |-> TRUE, stack |-> Append(s, s[Len(s)]), value |-> NoValue]
    ELSE [ok |-> FALSE, stack |-> s, value |-> NoValue]

dup(s, cap) ==
    IF Len(s) < cap
    THEN IF Len(s) = 0
         THEN [ok |-> FALSE, stack |-> s, value |-> NoValue]
         ELSE [ok |-> TRUE, stack |-> Append(s, s[Len(s)]), value |-> NoValue]
    ELSE [ok |-> FALSE, stack |-> s, value |-> NoValue]

dup_x1(s, cap) ==
    IF Len(s) < cap
    THEN LET p == pop_n(s, 2) IN
         IF ~p.ok THEN [ok |-> FALSE, stack |-> p.stack, value |-> NoValue]
         ELSE LET value1 == p.values[1]
                  value2 == p.values[2]
              IN push_all(p.stack, cap, <<value1, value2, value1>>)
    ELSE [ok |-> FALSE, stack |-> s, value |-> NoValue]

\* faulty variant: dup_x2 inserting the copy one place too high
dup_x2_misplaced(s, cap) ==
    IF Len(s) < cap
    THEN LET p == pop_n(s, 3) IN
         IF ~p.ok THEN [ok |-> FALSE, stack |-> p.stack, value |-> NoValue]
         ELSE LET value1 == p.values[1]
                  value2 == p.values[2]
                  value3 == p.values[3]
              IN push_all(p.stack, cap, <<value3, value1, value2, value1>>)
    ELSE [ok |-> FALSE, stack |-> s, value |-> NoValue]

dup_x2(s, cap) ==
    IF Len(s) < cap
    THEN LET p == pop_n(s, 3) IN
         IF ~p.ok THEN [ok |-> FALSE, stack |-> p.stack, value |-> NoValue]
         ELSE LET value1 == p.values[1]
                  value2 == p.values[2]
                  value3 == p.values[3]
              IN push_all(p.stack, cap, <<value1, value3, value2, value1>>)
    ELSE [ok |-> FALSE, stack |-> s, value |-> NoValue]

dup2(s, cap) ==
    IF Len(s) < cap
    THEN LET p == pop_n(s, 2) IN
         IF ~p.ok THEN [ok |-> FALSE, stack |-> p.stack, value |-> NoValue]
         ELSE LET value1 == p.values[1]
                  value2 == p.values[2]
              IN push_all(p.stack, cap, <<value2, value1, value2, value1>>)
    ELSE [ok |-> FALSE, stack |-> s, value |-> NoValue]

dup2_x1(s, cap) ==
    IF Len(s) < cap
    THEN LET p == pop_n(s, 3) IN
         IF ~p.ok THEN [ok |-> FALSE, stack |-> p.stack, value |-> NoValue]
         ELSE LET value1 == p.values[1]
                  value2 == p.values[2]
                  value3 == p.values[3]
              IN push_all(p.stack, cap,
                          <<value2, value1, value3, value2, value1>>)
    ELSE [ok |-> FALSE, stack |-> s, value |-> NoValue]

dup2_x2(s, cap) ==
    IF Len(s) < cap
    THEN LET p == pop_n(s, 4) IN
         IF ~p.ok THEN [ok |-> FALSE, stack |-> p.stack, value |-> NoValue]
         ELSE LET value1 == p.values[1]
                  value2 == p.values[2]
                  value3 == p.values[3]
                  value4 == p.values[4]
              IN push_all(p.stack, cap,
                          <<value2, value1, value4, value3, value2, value1>>)
    ELSE [ok |-> FALSE, stack |-> s, value |-> NoValue]

swap(s, cap) ==
    LET p == pop_n(s, 2) IN
    IF ~p.ok THEN [ok |-> FALSE, stack |-> p.stack, value |-> NoValue]
    ELSE LET value1 == p.values[1]
             value2 == p.values[2]
         IN push_all(p.stack, cap, <<value1, value2>>)

-----------------------------------------------------------------------------
(* Vm: the classes and methods the machine is run on.  Class files, the     *)
(* class manager, the call stack, the frames' bytecode and the native       *)
(* callbacks live outside vm.rs; they are modelled from their interfaces.   *)

ClassNames == {"java/lang/Object", "java/lang/String", "Main"}

\* a name no class file exists for
MissingName == "Missing"

\* the superclass of a class ("" for none)
superclass(c) == IF c = "java/lang/Object" THEN "" ELSE "java/lang/Object"

Method(c, n) == [class |-> c, name |-> n]

\* the methods of the classes: <clinit> of Object and String, three of Main
Methods ==
    {Method("java/lang/Object", "<clinit>"), Method("java/lang/String", "<clinit>"),
     Method("Main", "main"), Method("Main", "nat"), Method("Main", "missing")}

\* class.find_method(name, descriptor)
find_method(c, n) == Method(c, n) \in Methods

\* method.is_native()
is_native(m) ==
    m \in {Method("java/lang/Object", "<clinit>"), Method("Main", "nat"),
           Method("Main", "missing")}

\* native_methods_registry.get_method: whether a callback is registered
get_method(m) ==
    m \in {Method("java/lang/Object", "<clinit>"), Method("Main", "nat")}

\* the methods a caller can name in an invocation: all but the initializers
Invocable == {m \in Methods : m.name # "<clinit>"}

\* the class and its ancestors, topmost ancestor first
RECURSIVE lineage(_)
lineage(c) == IF superclass(c) = "" THEN <<c>> ELSE Append(lineage(superclass(c)), c)

\* the position of x in the sequence s (0 if absent)
IndexOf(s, x) == IF \E i \in 1..Len(s) : s[i] = x
                 THEN CHOOSE i \in 1..Len(s) : s[i] = x
                 ELSE 0

\* the ClassId the class manager gave a registered class
class_id(registry, c) == IndexOf(registry, c)

\* class_manager.find_class_by_id
find_class_by_id(registry, id) ==
    IF id \in 1..Len(registry) THEN registry[id] ELSE ""

\* class_manager.get_or_resolve_class: the classes it registers for a name it
\* does not hold yet, ancestors first; these are the classes to initialize
to_initialize(registry, c) ==
    SelectSeq(lineage(c), LAMBDA x : class_id(registry, x) = 0)

\* the results of calls
Ok == "Ok"
ClassNotFound == "Err(InternalError(ClassNotFoundException))"
NotImplemented == "Err(InternalError(NotImplemented))"
FrameFailed == "Err(InternalError(StackOverflow))"
BodyFailed == "Err(ExceptionThrown)"
NoResult == "none"

\* a call in progress: the method of Vm (or the frame body, or the native
\* callback) running, where it stands, and what it holds
Activation(f, c, n, p, todo, d) ==
    [fn |-> f, class |-> c, meth |-> n, pc |-> p, todo |-> todo, depth |-> d]

NoRet ==
    [fn |-> "none", class |-> "", meth |-> "", d0 |-> 0, d1 |-> 0, own |-> TRUE,
     class_id |-> 0, result |-> NoResult, inner |-> NoResult]

NoObject == [class_id |-> 0, fields |-> <<>>]
NoExtract == [object |-> NoObject, class_name |-> "", res |-> NoResult, string |-> <<>>]

IdleString ==
    /\ text = <<>>
    /\ string_object = NoObject
    /\ extracted = NoExtract

\* no array on shared storage
IdleShared ==
    /\ memory = <<>>
    /\ handles = <<>>
    /\ origin = <<>>
    /\ via = 0
    /\ other = 0

EmptyVm ==
    /\ resolved = <<>>
    /\ statics = [id \in 1..Cardinality(ClassNames) |-> 0]
    /\ frames = <<>>
    /\ ctl = <<>>
    /\ result = NoResult
    /\ ret_info = NoRet
    /\ body_ret = NoResult
    /\ clinit_runs = [c \in ClassNames |-> 0]
    /\ seen_id = [c \in ClassNames |-> 0]
    /\ panicked = FALSE

\* a machine and strings the stack and array specifications leave alone
IdleVm == EmptyVm /\ IdleString /\ IdleShared

Top == ctl[Len(ctl)]

Running(f, p) ==
    /\ ~panicked
    /\ ctl # <<>>
    /\ Top.fn = f
    /\ Top.pc = p

\* the running call returns r to its caller
Return(r) ==
    /\ ctl' = SubSeq(ctl, 1, Len(ctl) - 1)
    /\ result' = r

\* the running call moves to p and calls a
CallFrom(p, a) == ctl' = Append([ctl EXCEPT ![Len(ctl)].pc = p], a)

\* Vm::get_static_instance
get_static_instance(id) == statics[id]

-----------------------------------------------------------------------------
(* Vm: one action per step of a method between the calls it makes *)

\* faulty variant: get_or_resolve_class initializing an already resolved class
GetOrResolveClassReinitializes ==
    /\ Running("get_or_resolve_class", "start")
    /\ LET c == Top.class IN
       IF c \notin ClassNames
       THEN /\ Return(ClassNotFound)
            /\ ret_info' = [NoRet EXCEPT !.fn = "get_or_resolve_class",
                                         !.class = c, !.result = ClassNotFound]
            /\ UNCHANGED <<resolved, seen_id>>
       ELSE /\ resolved' = resolved \o to_initialize(resolved, c)
            /\ ctl' = [ctl EXCEPT ![Len(ctl)].pc = "loop",
                                  ![Len(ctl)].todo =
                                      IF class_id(resolved, c) # 0
                                      THEN <<c>>
                                      ELSE to_initialize(resolved, c)]
            /\ UNCHANGED <<result, ret_info, seen_id>>
    /\ UNCHANGED <<statics, frames, body_ret, clinit_runs, panicked>>
    /\ UNCHANGED <<stackVars, arrayVars, callVars, stringVars>>

\* get_or_resolve_class, line 83: the class manager is asked for the class
GetOrResolveClass ==
    /\ Running("get_or_resolve_class", "start")
    /\ LET c == Top.class IN
       IF c \notin ClassNames
       THEN /\ Return(ClassNotFound)
            /\ ret_info' = [NoRet EXCEPT !.fn = "get_or_resolve_class",
                                         !.class = c, !.result = ClassNotFound]
            /\ UNCHANGED <<resolved, seen_id>>
       ELSE IF class_id(resolved, c) # 0
       THEN /\ Return(Ok)
            /\ ret_info' = [NoRet EXCEPT !.fn = "get_or_resolve_class",
                                         !.class = c, !.result = Ok,
                                         !.class_id = class_id(resolved, c)]
            /\ seen_id' = [seen_id EXCEPT ![c] =
                               IF @ = 0 THEN class_id(resolved, c) ELSE @]
            /\ UNCHANGED resolved
       ELSE /\ resolved' = resolved \o to_initialize(resolved, c)
            /\ ctl' = [ctl EXCEPT ![Len(ctl)].pc = "loop",
                                  ![Len(ctl)].todo = to_initialize(resolved, c)]
            /\ UNCHANGED <<result, ret_info, seen_id>>
    /\ UNCHANGED <<statics, frames, body_ret, clinit_runs, panicked>>
    /\ UNCHANGED <<stackVars, arrayVars, callVars, stringVars>>

\* lines 85-89: the next class of the list is initialized, or the class returned
GetOrResolveLoop ==
    /\ Running("get_or_resolve_class", "loop")
    /\ LET c == Top.class IN
       IF Top.todo = <<>>
       THEN /\ Return(Ok)
            /\ ret_info' = [NoRet EXCEPT !.fn = "get_or_resolve_class",
                                         !.class = c, !.result = Ok,
                                         !.class_id = class_id(resolved, c)]
            /\ seen_id' = [seen_id EXCEPT ![c] =
                               IF @ = 0 THEN class_id(resolved, c) ELSE @]
       ELSE /\ ctl' = Append([ctl EXCEPT ![Len(ctl)].pc = "after_init",
                                         ![Len(ctl)].todo = Tail(Top.todo)],
                             Activation("init_class", Head(Top.todo), "", "start",
                                        <<>>, 0))
            /\ UNCHANGED <<result, ret_info, seen_id>>
    /\ UNCHANGED <<resolved, statics, frames, body_ret, clinit_runs, panicked>>
    /\ UNCHANGED <<stackVars, arrayVars, callVars, stringVars>>

\* faulty variant: get_or_resolve_class going on after a failed init_class
GetOrResolveAfterInitGoesOn ==
    /\ Running("get_or_resolve_class", "after_init")
    /\ ctl' = [ctl EXCEPT ![Len(ctl)].pc = "loop"]
    /\ UNCHANGED <<result, ret_info>>
    /\ UNCHANGED <<resolved, statics, frames, body_ret, clinit_runs, seen_id, panicked>>
    /\ UNCHANGED <<stackVars, arrayVars, callVars, stringVars>>

\* line 86: the `?` on the result of init_class
GetOrResolveAfterInit ==
    /\ Running("get_or_resolve_class", "after_init")
    /\ IF result # Ok
       THEN /\ Return(result)
            /\ ret_info' = [NoRet EXCEPT !.fn = "get_or_resolve_class",
                                         !.class = Top.class, !.result = result]
       ELSE /\ ctl' = [ctl EXCEPT ![Len(ctl)].pc = "loop"]
            /\ UNCHANGED <<result, ret_info>>
    /\ UNCHANGED <<resolved, statics, frames, body_ret, clinit_runs, seen_id, panicked>>
    /\ UNCHANGED <<stackVars, arrayVars, callVars, stringVars>>

\* faulty variant: init_class invoking <clinit> before recording the instance
InitClassInvokesFirst ==
    /\ Running("init_class", "start")
    /\ LET c == Top.class IN
       IF find_method(c, "<clinit>")
       THEN /\ CallFrom("after_invoke",
                        Activation("invoke", c, "<clinit>", "start", <<>>, Len(frames)))
            /\ clinit_runs' = [clinit_runs EXCEPT ![c] = @ + 1]
            /\ UNCHANGED <<result, statics>>
       ELSE /\ Return(Ok)
            /\ statics' = [statics EXCEPT ![class_id(resolved, c)] = @ + 1]
            /\ UNCHANGED clinit_runs
    /\ UNCHANGED <<resolved, frames, ret_info, body_ret, seen_id, panicked>>
    /\ UNCHANGED <<stackVars, arrayVars, callVars, stringVars>>

\* init_class, lines 97-109: a new instance is recorded as the class's static
\* instance (the entry counts the instances recorded for the class so far),
\* then <clinit> is invoked if the class has one
InitClass ==
    /\ Running("init_class", "start")
    /\ LET c == Top.class IN
       /\ statics' = [statics EXCEPT ![class_id(resolved, c)] = @ + 1]
       /\ IF find_method(c, "<clinit>")
          THEN /\ CallFrom("after_invoke",
                           Activation("invoke", c, "<clinit>", "start", <<>>, Len(frames)))
               /\ clinit_runs' = [clinit_runs EXCEPT ![c] = @ + 1]
               /\ UNCHANGED result
          ELSE /\ Return(Ok)
               /\ UNCHANGED clinit_runs
    /\ UNCHANGED <<resolved, frames, ret_info, body_ret, seen_id, panicked>>
    /\ UNCHANGED <<stackVars, arrayVars, callVars, stringVars>>

\* lines 109-111: the `?` on the result of invoke, then Ok(())
InitClassAfterInvoke ==
    /\ Running("init_class", "after_invoke")
    /\ Return(result)
    /\ UNCHANGED <<resolved, statics, frames, ret_info, body_ret, clinit_runs,
                   seen_id, panicked>>
    /\ UNCHANGED <<stackVars, arrayVars, callVars, stringVars>>

\* what a return of invoke is recorded as
InvokeRet(a, r, own) ==
    [NoRet EXCEPT !.fn = "invoke", !.class = a.class, !.meth = a.meth,
                  !.d0 = a.depth, !.d1 = Len(frames'), !.own = own,
                  !.result = r, !.inner = body_ret]

\* invoke, lines 152-157: a native method goes to invoke_native; otherwise a
\* frame is added (the call stack refuses it at its depth limit) and executed
Invoke ==
    /\ Running("invoke", "start")
    /\ LET m == Method(Top.class, Top.meth) IN
       IF is_native(m)
       THEN /\ CallFrom("after_native",
                        Activation("invoke_native", m.class, m.name, "start", <<>>, 0))
            /\ UNCHANGED <<frames, result, ret_info>>
       ELSE IF Len(frames) >= MaxFrames
       THEN /\ Return(FrameFailed)
            /\ frames' = frames
            /\ ret_info' = InvokeRet(Top, FrameFailed, TRUE)
       ELSE /\ frames' = Append(frames, [owner |-> Len(ctl), class |-> m.class,
                                         meth |-> m.name])
            /\ CallFrom("after_execute",
                        Activation("execute", m.class, m.name, "body", <<>>, 0))
            /\ UNCHANGED <<result, ret_info>>
    /\ UNCHANGED <<resolved, statics, body_ret, clinit_runs, seen_id, panicked>>
    /\ UNCHANGED <<stackVars, arrayVars, callVars, stringVars>>

\* line 153: invoke returns what invoke_native returned
InvokeAfterNative ==
    /\ Running("invoke", "after_native")
    /\ Return(result)
    /\ frames' = frames
    /\ ret_info' = InvokeRet(Top, result, TRUE)
    /\ UNCHANGED <<resolved, statics, body_ret, clinit_runs, seen_id, panicked>>
    /\ UNCHANGED <<stackVars, arrayVars, callVars, stringVars>>

\* faulty variant: invoke leaving the frame behind when execute failed
InvokeKeepsFrameOnError ==
    /\ Running("invoke", "after_execute")
    /\ frames # <<>>
    /\ frames' = IF result = Ok THEN SubSeq(frames, 1, Len(frames) - 1) ELSE frames
    /\ Return(result)
    /\ ret_info' = InvokeRet(Top, result, frames[Len(frames)].owner = Len(ctl))
    /\ UNCHANGED <<resolved, statics, body_ret, clinit_runs, seen_id, panicked>>
    /\ UNCHANGED <<stackVars, arrayVars, callVars, stringVars>>

\* lines 158-161: the top frame is popped (the expect aborts if there is none)
\* and the result of execute returned
InvokeAfterExecute ==
    /\ Running("invoke", "after_execute")
    /\ IF frames = <<>>
       THEN /\ panicked' = TRUE
            /\ UNCHANGED <<frames, ctl, result, ret_info>>
       ELSE /\ frames' = SubSeq(frames, 1, Len(frames) - 1)
            /\ Return(result)
            /\ ret_info' = InvokeRet(Top, result, frames[Len(frames)].owner = Len(ctl))
            /\ UNCHANGED panicked
    /\ UNCHANGED <<resolved, statics, body_ret, clinit_runs, seen_id>>
    /\ UNCHANGED <<stackVars, arrayVars, callVars, stringVars>>

\* faulty variant: invoke_native reporting success for an unregistered method
InvokeNativeIgnoresMissing ==
    /\ Running("invoke_native", "start")
    /\ LET m == Method(Top.class, Top.meth) IN
       IF get_method(m)
       THEN /\ CallFrom("after_callback",
                        Activation("callback", m.class, m.name, "body", <<>>, 0))
            /\ UNCHANGED result
       ELSE Return(Ok)
    /\ UNCHANGED <<resolved, statics, frames, ret_info, body_ret, clinit_runs,
                   seen_id, panicked>>
    /\ UNCHANGED <<stackVars, arrayVars, callVars, stringVars>>

\* invoke_native, lines 171-188: the registered callback is called, or the
\* method reported as not implemented
InvokeNative ==
    /\ Running("invoke_native", "start")
    /\ LET m == Method(Top.class, Top.meth) IN
       IF get_method(m)
       THEN /\ CallFrom("after_callback",
                        Activation("callback", m.class, m.name, "body", <<>>, 0))
            /\ UNCHANGED result
       ELSE Return(NotImplemented)
    /\ UNCHANGED <<resolved, statics, frames, ret_info, body_ret, clinit_runs,
                   seen_id, panicked>>
    /\ UNCHANGED <<stackVars, arrayVars, callVars, stringVars>>

\* line 179: invoke_native returns what the callback returned
InvokeNativeAfterCallback ==
    /\ Running("invoke_native", "after_callback")
    /\ Return(result)
    /\ UNCHANGED <<resolved, statics, frames, ret_info, body_ret, clinit_runs,
                   seen_id, panicked>>
    /\ UNCHANGED <<stackVars, arrayVars, callVars, stringVars>>

\* whether a frame body or a native callback is running
InBody == ~panicked /\ ctl # <<>> /\ Top.fn \in {"execute", "callback"}

\* frame.execute or a native callback resolves a class through the machine
BodyResolves ==
    /\ InBody
    /\ Len(ctl) + 5 <= MaxNest
    /\ \E c \in ClassNames \cup {MissingName} :
          ctl' = Append(ctl, Activation("get_or_resolve_class", c, "", "start", <<>>, 0))
    /\ UNCHANGED <<resolved, statics, frames, result, ret_info, body_ret, clinit_runs,
                   seen_id, panicked>>
    /\ UNCHANGED <<stackVars, arrayVars, callVars, stringVars>>

\* frame.execute or a native callback invokes a method of a resolved class
BodyInvokes ==
    /\ InBody
    /\ Len(ctl) + 3 <= MaxNest
    /\ \E m \in Invocable :
          /\ class_id(resolved, m.class) # 0
          /\ ctl' = Append(ctl, Activation("invoke", m.class, m.name, "start", <<>>,
                                           Len(frames)))
    /\ UNCHANGED <<resolved, statics, frames, result, ret_info, body_ret, clinit_runs,
                   seen_id, panicked>>
    /\ UNCHANGED <<stackVars, arrayVars, callVars, stringVars>>

\* frame.execute or a native callback returns, with success or a failure
BodyReturns ==
    /\ InBody
    /\ \E r \in {Ok, BodyFailed} :
          /\ Return(r)
          /\ body_ret' = r
    /\ UNCHANGED <<resolved, statics, frames, ret_info, clinit_runs, seen_id, panicked>>
    /\ UNCHANGED <<stackVars, arrayVars, callVars, stringVars>>

\* the embedding program calls get_or_resolve_class
HostResolves ==
    /\ ~panicked
    /\ ctl = <<>>
    /\ \E c \in ClassNames \cup {MissingName} :
          ctl' = <<Activation("get_or_resolve_class", c, "", "start", <<>>, 0)>>
    /\ UNCHANGED <<resolved, statics, frames, result, ret_info, body_ret, clinit_runs,
                   seen_id, panicked>>
    /\ UNCHANGED <<stackVars, arrayVars, callVars, stringVars>>

\* the embedding program invokes a method of a resolved class
HostInvokes ==
    /\ ~panicked
    /\ ctl = <<>>
    /\ \E m \in Invocable :
          /\ class_id(resolved, m.class) # 0
          /\ ctl' = <<Activation("invoke", m.class, m.name, "start", <<>>, Len(frames))>>
    /\ UNCHANGED <<resolved, statics, frames, result, ret_info, body_ret, clinit_runs,
                   seen_id, panicked>>
    /\ UNCHANGED <<stackVars, arrayVars, callVars, stringVars>>

InitVm ==
    /\ EmptyVm
    /\ IdleString
    /\ IdleShared
    /\ capacity = 0
    /\ stack = <<>>
    /\ pre = <<>>
    /\ pushed = <<>>
    /\ popped = <<>>
    /\ array = [length |-> 0, elements_type |-> "Int", slots |-> <<>>]
    /\ apre = array
    /\ op = "new"
    /\ val = NoValue
    /\ num = 0
    /\ res = "Ok"
    /\ ret = NoValue

NextVm ==
    \/ HostResolves
    \/ HostInvokes
    \/ GetOrResolveClass
    \/ GetOrResolveLoop
    \/ GetOrResolveAfterInit
    \/ InitClass
    \/ InitClassAfterInvoke
    \/ Invoke
    \/ InvokeAfterNative
    \/ InvokeAfterExecute
    \/ InvokeNative
    \/ InvokeNativeAfterCallback
    \/ BodyResolves
    \/ BodyInvokes
    \/ BodyReturns

SpecVm == InitVm /\ [][NextVm]_vars

-----------------------------------------------------------------------------
(* Vm: strings.  A text is the sequence of the code points of its chars.    *)
(* An object is [class_id, fields]; the fields are numbered from 0.  The    *)
(* object allocator and the objects' field accessors live outside vm.rs.    *)

\* the chars texts are made of: 'H', 'i', U+00E9, U+00C3, U+01A9, U+1F600
Alphabet == {72, 105, 233, 195, 425, 128512}

AsciiChars == {c \in Alphabet : c < 128}

Texts == UNION {[1..n -> Alphabet] : n \in 0..MaxText}

\* Value::Array of vm.rs: the element type and the shared vector of items
ValueArrayOf(t, items) == [kind |-> "Array", type |-> t, items |-> items]

\* char::encode_utf16: one unit, or a surrogate pair above the basic plane
utf16_units(c) ==
    IF c < 65536 THEN <<c>>
    ELSE <<55296 + ((c - 65536) \div 1024), 56320 + ((c - 65536) % 1024)>>

\* str::encode_utf16
RECURSIVE encode_utf16(_)
encode_utf16(string) ==
    IF string = <<>> THEN <<>>
    ELSE utf16_units(Head(string)) \o encode_utf16(Tail(string))

\* the cast `*c as u8` of an i32: its low eight bits
as_u8(c) == c % 256

\* whether a byte is a UTF-8 continuation byte
is_continuation(b) == b \in 128..191

\* the length of the UTF-8 sequence a byte starts (0 if it starts none)
utf8_char_width(b) ==
    IF b < 128 THEN 1
    ELSE IF b \in 194..223 THEN 2
    ELSE IF b \in 224..239 THEN 3
    ELSE IF b \in 240..244 THEN 4
    ELSE 0

\* whether the bytes start with a well-formed UTF-8 sequence
utf8_first_ok(bytes) ==
    LET w == utf8_char_width(bytes[1]) IN
    /\ w # 0
    /\ Len(bytes) >= w
    /\ w = 2 => is_continuation(bytes[2])
    /\ w = 3 => /\ IF bytes[1] = 224 THEN bytes[2] \in 160..191
                   ELSE IF bytes[1] = 237 THEN bytes[2] \in 128..159
                   ELSE is_continuation(bytes[2])
                /\ is_continuation(bytes[3])
    /\ w = 4 => /\ IF bytes[1] = 240 THEN bytes[2] \in 144..191
                   ELSE IF bytes[1] = 244 THEN bytes[2] \in 128..143
                   ELSE is_continuation(bytes[2])
                /\ is_continuation(bytes[3])
                /\ is_continuation(bytes[4])

\* the char a well-formed UTF-8 sequence at the start of the bytes encodes
utf8_first_char(bytes) ==
    LET w == utf8_char_width(bytes[1]) IN
    IF w = 1 THEN bytes[1]
    ELSE IF w = 2 THEN (bytes[1] - 192) * 64 + (bytes[2] - 128)
    ELSE IF w = 3
    THEN (bytes[1] - 224) * 4096 + (bytes[2] - 128) * 64 + (bytes[3] - 128)
    ELSE (bytes[1] - 240) * 262144 + (bytes[2] - 128) * 4096
         + (bytes[3] - 128) * 64 + (bytes[4] - 128)

\* String::from_utf8: [ok, string], the string decoded if the bytes are valid
RECURSIVE from_utf8(_)
from_utf8(bytes) ==
    IF bytes = <<>> THEN [ok |-> TRUE, string |-> <<>>]
    ELSE IF ~utf8_first_ok(bytes) THEN [ok |-> FALSE, string |-> <<>>]
    ELSE LET rest == from_utf8(SubSeq(bytes, utf8_char_width(bytes[1]) + 1, Len(bytes)))
         IN  [ok |-> rest.ok,
              string |-> IF rest.ok THEN <<utf8_first_char(bytes)>> \o rest.string
                         ELSE <<>>]

\* the fields of an object, as the allocator leaves them
FieldIndexes == 0..6
allocate(id) == [class_id |-> id, fields |-> [i \in FieldIndexes |-> ValueNull]]

get_field(object, i) == object.fields[i]
set_field(object, i, value) == [object EXCEPT !.fields[i] = value]

\* what a call that aborted the process is recorded as
Aborted == "panic"

\* faulty variant: the char array stored in field 1, the hash in field 0
string_fields_misplaced(object, char_array) ==
    set_field(set_field(set_field(object, 1, char_array), 0, ValueInt(0)),
              6, ValueInt(0))

\* create_java_lang_string_instance, lines 231-233: the fields set on the
\* new object
string_fields(object, char_array) ==
    set_field(set_field(set_field(object, 0, char_array), 1, ValueInt(0)),
              6, ValueInt(0))

\* lines 215-220: the char array made of the text's UTF-16 units
char_array_of(string) ==
    LET units == encode_utf16(string) IN
    ValueArrayOf("Char", [i \in 1..Len(units) |-> ValueInt(units[i])])

\* lines 54-63: the items of the array as bytes, decoded as UTF-8; the
\* process aborts on an item that is no Int and on bytes that are no UTF-8
decode_items(items) ==
    IF \E i \in 1..Len(items) : items[i].kind # "Int"
    THEN [res |-> Aborted, string |-> <<>>]
    ELSE LET decoded == from_utf8([i \in 1..Len(items) |-> as_u8(items[i].lo)]) IN
         IF decoded.ok THEN [res |-> Ok, string |-> decoded.string]
         ELSE [res |-> Aborted, string |-> <<>>]

\* faulty variant: extraction that does not look at the object's class
extract_str_of_any_class(registry, object) ==
    IF find_class_by_id(registry, object.class_id) = ""
    THEN [res |-> ValidationException, string |-> <<>>]
    ELSE IF get_field(object, 0).kind = "Array"
    THEN decode_items(get_field(object, 0).items)
    ELSE [res |-> ValidationException, string |-> <<>>]

\* Vm::extract_str_from_java_lang_string, with get_class_by_id
extract_str_from_java_lang_string(registry, object) ==
    LET name == find_class_by_id(registry, object.class_id) IN
    IF name = ""
    THEN [res |-> ValidationException, string |-> <<>>]
    ELSE IF name = "java/lang/String" /\ get_field(object, 0).kind = "Array"
    THEN decode_items(get_field(object, 0).items)
    ELSE [res |-> ValidationException, string |-> <<>>]

\* the objects extraction is asked about besides the one last created: of
\* each class id, with field 0 unset, an int, or a char array
OtherObjects ==
    {set_field(allocate(id), 0, f) :
        id \in 1..Cardinality(ClassNames),
        f \in {ValueNull, ValueInt(0), char_array_of(<<72>>)}}

-----------------------------------------------------------------------------
(* Vm: strings, one action per step of a method between the calls it makes. *)
(* The text of the call in progress is kept in the variable text.           *)

\* the embedding program calls create_java_lang_string_instance
HostCreatesString ==
    /\ ~panicked
    /\ ctl = <<>>
    /\ \E t \in Texts : text' = t
    /\ string_object' = NoObject
    /\ extracted' = NoExtract
    /\ ctl' = <<Activation("create_java_lang_string_instance", "java/lang/String",
                           "", "start", <<>>, 0)>>
    /\ UNCHANGED <<resolved, statics, frames, result, ret_info, body_ret, clinit_runs,
                   seen_id, panicked>>
    /\ UNCHANGED <<stackVars, arrayVars, callVars>>

\* create_java_lang_string_instance, lines 215-230: the char array is built
\* and a java/lang/String object asked of new_object
CreateJavaLangStringInstance ==
    /\ Running("create_java_lang_string_instance", "start")
    /\ CallFrom("after_new_object",
                Activation("new_object", Top.class, "", "start", <<>>, 0))
    /\ UNCHANGED <<resolved, statics, frames, result, ret_info, body_ret, clinit_runs,
                   seen_id, panicked>>
    /\ UNCHANGED <<stackVars, arrayVars, callVars, stringVars>>

\* new_object, line 201: the class is resolved
NewObject ==
    /\ Running("new_object", "start")
    /\ CallFrom("after_resolve",
                Activation("get_or_resolve_class", Top.class, "", "start", <<>>, 0))
    /\ UNCHANGED <<resolved, statics, frames, result, ret_info, body_ret, clinit_runs,
                   seen_id, panicked>>
    /\ UNCHANGED <<stackVars, arrayVars, callVars, stringVars>>

\* new_object, lines 201-202: the `?` on the resolution, then the allocation
\* of an object of the class, which the caller receives
NewObjectAfterResolve ==
    /\ Running("new_object", "after_resolve")
    /\ Return(result)
    /\ UNCHANGED <<resolved, statics, frames, ret_info, body_ret, clinit_runs,
                   seen_id, panicked>>
    /\ UNCHANGED <<stackVars, arrayVars, callVars, stringVars>>

\* create_java_lang_string_instance, lines 230-234: the `?` on new_object,
\* then the fields of the new object are set and the object returned
CreateJavaLangStringInstanceAfterNewObject ==
    /\ Running("create_java_lang_string_instance", "after_new_object")
    /\ Return(result)
    /\ string_object' =
          IF result = Ok
          THEN string_fields(allocate(class_id(resolved, Top.class)),
                             char_array_of(text))
          ELSE NoObject
    /\ UNCHANGED <<text, extracted>>
    /\ UNCHANGED <<resolved, statics, frames, ret_info, body_ret, clinit_runs,
                   seen_id, panicked>>
    /\ UNCHANGED <<stackVars, arrayVars, callVars>>

\* the embedding program calls extract_str_from_java_lang_string on an
\* object; the call aborts the process or returns
ExtractStr ==
    /\ ~panicked
    /\ ctl = <<>>
    /\ \E object \in OtherObjects \cup {string_object} :
          /\ object.class_id # 0
          /\ LET r == extract_str_from_java_lang_string(resolved, object) IN
             /\ extracted' = [object |-> object,
                              class_name |-> find_class_by_id(resolved, object.class_id),
                              res |-> r.res, string |-> r.string]
             /\ panicked' = (r.res = Aborted)
    /\ UNCHANGED <<text, string_object>>
    /\ UNCHANGED <<resolved, statics, frames, ctl, result, ret_info, body_ret,
                   clinit_runs, seen_id>>
    /\ UNCHANGED <<stackVars, arrayVars, callVars>>

\* strings on a machine whose initializers and callbacks call nothing
NextString ==
    \/ HostCreatesString
    \/ CreateJavaLangStringInstance
    \/ NewObject
    \/ NewObjectAfterResolve
    \/ CreateJavaLangStringInstanceAfterNewObject
    \/ ExtractStr
    \/ GetOrResolveClass
    \/ GetOrResolveLoop
    \/ GetOrResolveAfterInit
    \/ InitClass
    \/ InitClassAfterInvoke
    \/ Invoke
    \/ InvokeAfterNative
    \/ InvokeAfterExecute
    \/ InvokeNative
    \/ InvokeNativeAfterCallback
    \/ BodyReturns

SpecString == InitVm /\ [][NextString]_vars

-----------------------------------------------------------------------------
(* Array: the storage block is [length, elements_type, slots]: the header   *)
(* written by Array::new and one 8-byte slot [lo, hi] per element.  The     *)
(* lengths of this model are far below 2^32, where the cast of the length   *)
(* to u32 changes nothing.                                                  *)

\* ArrayEntryType: the eight base types, Object(_) and Array
ElementTypes ==
    {"Boolean", "Byte", "Char", "Short", "Int", "Long", "Float", "Double",
     "Object", "Array"}

\* the element types whose match arm reads and writes an i32
IntTypes == {"Boolean", "Byte", "Char", "Short", "Int"}

\* a slot of a block the allocator handed out zeroed
ZeroSlot == [lo |-> 0, hi |-> 0]

\* std::ptr::write of a 4-byte payload: the high four bytes of the slot stay
write32(slot, w) == [slot EXCEPT !.lo = w]

\* std::ptr::write of an 8-byte payload
write64(slot, l, h) == [lo |-> l, hi |-> h]

\* Array::new: the header over the caller's block, whose slots it leaves as they are
new(elements_type, length, block) ==
    [length |-> length, elements_type |-> elements_type, slots |-> block]

len(a) == a.length

is_empty(a) == len(a) = 0

get_elements_type(a) == a.elements_type

\* faulty variant: get_item_at with the bounds check off by one
get_item_at_off_by_one(a, index) ==
    IF index > len(a)
    THEN [res |-> ArrayIndexOutOfBoundsException, value |-> NoValue]
    ELSE [res |-> "Ok", value |-> NoValue]

\* faulty variant: get_item_at reading only four bytes of a 64-bit slot
get_item_at_low_word(a, index) ==
    IF index >= len(a)
    THEN [res |-> ArrayIndexOutOfBoundsException, value |-> NoValue]
    ELSE LET slot == a.slots[index + 1]
             t == get_elements_type(a)
         IN [res |-> "Ok",
             value |->
               CASE t \in IntTypes -> ValueInt(slot.lo)
                 [] t = "Long" -> ValueLong(slot.lo, 0)
                 [] t = "Float" -> ValueFloat(slot.lo)
                 [] t = "Double" -> ValueDouble(slot.lo, 0)
                 [] t = "Object" ->
                      IF slot.lo = 0 /\ slot.hi = 0
                      THEN ValueNull
                      ELSE ValueObject(slot.lo, slot.hi)
                 [] t = "Array" -> ValueArray(slot.lo, slot.hi)]

get_item_at(a, index) ==
    IF index >= len(a)
    THEN [res |-> ArrayIndexOutOfBoundsException, value |-> NoValue]
    ELSE LET slot == a.slots[index + 1]
             t == get_elements_type(a)
         IN [res |-> "Ok",
             value |->
               CASE t \in IntTypes -> ValueInt(slot.lo)
                 [] t = "Long" -> ValueLong(slot.lo, slot.hi)
                 [] t = "Float" -> ValueFloat(slot.lo)
                 [] t = "Double" -> ValueDouble(slot.lo, slot.hi)
                 [] t = "Object" ->
                      IF slot.lo = 0 /\ slot.hi = 0
                      THEN ValueNull
                      ELSE ValueObject(slot.lo, slot.hi)
                 [] t = "Array" -> ValueArray(slot.lo, slot.hi)]

\* faulty variant: set_item_at writing the slot before validating the variant
set_item_at_unvalidated(a, index, value) ==
    IF index >= len(a)
    THEN [res |-> ArrayIndexOutOfBoundsException, array |-> a]
    ELSE [res |-> IF \/ get_elements_type(a) \in IntTypes /\ value.kind = "Int"
                     \/ get_elements_type(a) = value.kind
                     \/ get_elements_type(a) = "Object" /\ value.kind = "Null"
                  THEN "Ok" ELSE ValidationException,
          array |-> [a EXCEPT !.slots[index + 1] =
                         write64(@, value.lo, value.hi)]]

\* faulty variant: set_item_at writing the first slot whatever the index
set_item_at_first_slot(a, index, value) ==
    IF index >= len(a)
    THEN [res |-> ArrayIndexOutOfBoundsException, array |-> a]
    ELSE IF \/ get_elements_type(a) \in IntTypes /\ value.kind = "Int"
            \/ get_elements_type(a) = value.kind
            \/ get_elements_type(a) = "Object" /\ value.kind = "Null"
    THEN [res |-> "Ok",
          array |-> [a EXCEPT !.slots[1] = write64(@, value.lo, value.hi)]]
    ELSE [res |-> ValidationException, array |-> a]

set_item_at(a, index, value) ==
    IF index >= len(a)
    THEN [res |-> ArrayIndexOutOfBoundsException, array |-> a]
    ELSE LET t == get_elements_type(a)
             k == value.kind
             written32 == [res |-> "Ok",
                           array |-> [a EXCEPT !.slots[index + 1] =
                                          write32(@, value.lo)]]
             written64 == [res |-> "Ok",
                           array |-> [a EXCEPT !.slots[index + 1] =
                                          write64(@, value.lo, value.hi)]]
             zeroed == [res |-> "Ok",
                        array |-> [a EXCEPT !.slots[index + 1] =
                                       write64(@, 0, 0)]]
             invalid == [res |-> ValidationException, array |-> a]
         IN CASE t \in IntTypes -> IF k = "Int" THEN written32 ELSE invalid
              [] t = "Long" -> IF k = "Long" THEN written64 ELSE invalid
              [] t = "Float" -> IF k = "Float" THEN written32 ELSE invalid
              [] t = "Double" -> IF k = "Double" THEN written64 ELSE invalid
              [] t = "Object" ->
                   IF k = "Object" THEN written64
                   ELSE IF k = "Null" THEN zeroed
                   ELSE invalid
              [] t = "Array" -> IF k = "Array" THEN written64 ELSE invalid

-----------------------------------------------------------------------------
(* Array: one action per call *)

\* the values written to arrays in this model
ArrayValues ==
    {ValueInt(42), ValueInt(-1), ValueLong(3, 1), ValueFloat(5),
     ValueDouble(0, 7), ValueObject(16, 0), ValueArray(24, 0), ValueNull}

GetItemAt ==
    \E i \in 0..(len(array) + 1) :
        LET r == get_item_at(array, i) IN
        /\ op' = "get_item_at"
        /\ val' = NoValue
        /\ num' = i
        /\ res' = r.res
        /\ ret' = r.value
        /\ apre' = array
        /\ UNCHANGED <<array, stackVars, vmVars, stringVars, sharedVars>>

SetItemAt ==
    \E i \in 0..(len(array) + 1), v \in ArrayValues :
        LET r == set_item_at(array, i, v) IN
        /\ op' = "set_item_at"
        /\ val' = v
        /\ num' = i
        /\ res' = r.res
        /\ ret' = NoValue
        /\ apre' = array
        /\ array' = r.array
        /\ UNCHANGED <<stackVars, vmVars, stringVars, sharedVars>>

InitArray ==
    /\ \E t \in ElementTypes, length \in 0..MaxLen :
          array = new(t, length, [i \in 1..length |-> ZeroSlot])
    /\ apre = array
    /\ capacity = 0
    /\ stack = <<>>
    /\ pre = <<>>
    /\ op = "new"
    /\ val = NoValue
    /\ num = 0
    /\ res = "Ok"
    /\ ret = NoValue
    /\ pushed = <<>>
    /\ popped = <<>>
    /\ IdleVm

NextArray ==
    \/ GetItemAt
    \/ SetItemAt

SpecArray == InitArray /\ [][NextArray]_vars

-----------------------------------------------------------------------------
(* Array: handles on shared storage.  A handle is [data], the address of    *)
(* the block it was made on; memory maps the addresses to the blocks.  Two  *)
(* arrays are made by Array::new on two blocks, and handles are cloned.     *)

\* the element types of the arrays made on shared storage
SharedTypes == {"Int", "Long", "Object"}

\* the values written to them
SharedValues == {ValueInt(42), ValueLong(3, 1), ValueObject(16, 0), ValueNull}

\* the Array that Array::new returns for the block at an address
handle_at(ptr) == [data |-> ptr]

\* #[derive(Clone)]: the clone holds the same address
clone(handle) == [data |-> handle.data]

\* faulty variant: is_same_as comparing what the storage holds
is_same_as_contents(handle, arg) == memory[handle.data] = memory[arg.data]

\* Array::is_same_as
is_same_as(handle, arg) == handle.data = arg.data

\* the block a handle reads and writes
block_of(handle) == memory[handle.data]

Clone ==
    /\ Len(handles) < MaxHandles
    /\ \E h \in 1..Len(handles) :
          /\ handles' = Append(handles, clone(handles[h]))
          /\ origin' = Append(origin, origin[h])
          /\ via' = h
    /\ op' = "clone"
    /\ val' = NoValue
    /\ num' = 0
    /\ res' = "Ok"
    /\ ret' = NoValue
    /\ other' = 0
    /\ UNCHANGED <<memory, array, apre, stackVars, vmVars, stringVars>>

SharedGetItemAt ==
    \E h \in 1..Len(handles) :
    \E i \in 0..len(block_of(handles[h])) :
        LET r == get_item_at(block_of(handles[h]), i) IN
        /\ op' = "get_item_at"
        /\ via' = h
        /\ val' = NoValue
        /\ num' = i
        /\ res' = r.res
        /\ ret' = r.value
        /\ other' = 0
        /\ UNCHANGED <<memory, handles, origin, array, apre, stackVars, vmVars,
                       stringVars>>

SharedSetItemAt ==
    \E h \in 1..Len(handles), v \in SharedValues :
    \E i \in 0..len(block_of(handles[h])) :
        LET r == set_item_at(block_of(handles[h]), i, v) IN
        /\ op' = "set_item_at"
        /\ via' = h
        /\ val' = v
        /\ num' = i
        /\ res' = r.res
        /\ ret' = NoValue
        /\ other' = 0
        /\ memory' = [memory EXCEPT ![handles[h].data] = r.array]
        /\ UNCHANGED <<handles, origin, array, apre, stackVars, vmVars, stringVars>>

IsSameAs ==
    \E h \in 1..Len(handles), o \in 1..Len(handles) :
        /\ op' = "is_same_as"
        /\ via' = h
        /\ other' = o
        /\ val' = NoValue
        /\ num' = 0
        /\ res' = IF is_same_as(handles[h], handles[o]) THEN "true" ELSE "false"
        /\ ret' = NoValue
        /\ UNCHANGED <<memory, handles, origin, array, apre, stackVars, vmVars,
                       stringVars>>

\* two arrays of one element type and length made on two zero-initialized
\* blocks
InitShared ==
    /\ \E t \in SharedTypes, length \in 0..MaxLen :
          memory = <<new(t, length, [i \in 1..length |-> ZeroSlot]),
                     new(t, length, [i \in 1..length |-> ZeroSlot])>>
    /\ handles = <<handle_at(1), handle_at(2)>>
    /\ origin = <<1, 2>>
    /\ via = 0
    /\ other = 0
    /\ array = [length |-> 0, elements_type |-> "Int", slots |-> <<>>]
    /\ apre = array
    /\ capacity = 0
    /\ stack = <<>>
    /\ pre = <<>>
    /\ pushed = <<>>
    /\ popped = <<>>
    /\ op = "new"
    /\ val = NoValue
    /\ num = 0
    /\ res = "Ok"
    /\ ret = NoValue
    /\ EmptyVm
    /\ IdleString

NextShared ==
    \/ Clone
    \/ SharedGetItemAt
    \/ SharedSetItemAt
    \/ IsSameAs

SpecShared == InitShared /\ [][NextShared]_vars

-----------------------------------------------------------------------------
(* ValueStack: one action per call *)

\* the state left by a call named o with arguments v and n that returned r
StackCall(o, v, n, r) ==
    /\ op' = o
    /\ val' = v
    /\ num' = n
    /\ res' = IF r.ok THEN "Ok" ELSE ValidationException
    /\ ret' = r.value
    /\ pre' = stack
    /\ stack' = r.stack
    /\ UNCHANGED <<capacity, pushed, popped, arrayVars, vmVars, stringVars>>

Push == \E v \in StackValues : StackCall("push", v, 0, push(stack, capacity, v))
Pop == StackCall("pop", NoValue, 0, pop(stack))
Pop2 == StackCall("pop2", NoValue, 0, pop2(stack))
Truncate ==
    \E n \in 0..(capacity + 1) :
        StackCall("truncate", NoValue, n, truncate(stack, capacity, n))
Get ==
    \E i \in 0..capacity :
        LET r == get(stack, i) IN
        /\ op' = "get"
        /\ val' = NoValue
        /\ num' = i
        /\ res' = IF r.ok THEN "Some" ELSE "None"
        /\ ret' = r.value
        /\ pre' = stack
        /\ stack' = r.stack
        /\ UNCHANGED <<capacity, pushed, popped, arrayVars, vmVars, stringVars>>
Dup == StackCall("dup", NoValue, 0, dup(stack, capacity))
DupX1 == StackCall("dup_x1", NoValue, 0, dup_x1(stack, capacity))
DupX2 == StackCall("dup_x2", NoValue, 0, dup_x2(stack, capacity))
Dup2 == StackCall("dup2", NoValue, 0, dup2(stack, capacity))
Dup2X1 == StackCall("dup2_x1", NoValue, 0, dup2_x1(stack, capacity))
Dup2X2 == StackCall("dup2_x2", NoValue, 0, dup2_x2(stack, capacity))
Swap == StackCall("swap", NoValue, 0, swap(stack, capacity))

\* an array the stack specifications leave alone
IdleArray == [length |-> 0, elements_type |-> "Int", slots |-> <<>>]

InitStack ==
    /\ \E max_size \in 0..MaxCap :
          LET vs == with_max_size(max_size) IN
          /\ stack = vs.stack
          /\ capacity = vs.capacity
    /\ pre = <<>>
    /\ array = IdleArray
    /\ apre = IdleArray
    /\ op = "with_max_size"
    /\ val = NoValue
    /\ num = 0
    /\ res = "Ok"
    /\ ret = NoValue
    /\ pushed = <<>>
    /\ popped = <<>>
    /\ IdleVm

NextStack ==
    \/ Push
    \/ Pop
    \/ Pop2
    \/ Truncate
    \/ Get
    \/ Dup
    \/ DupX1
    \/ DupX2
    \/ Dup2
    \/ Dup2X1
    \/ Dup2X2
    \/ Swap

SpecStack == InitStack /\ [][NextStack]_vars

-----------------------------------------------------------------------------
(* ValueStack: pushes followed by pops, with the history of both recorded.  *)
(* Pushes are made until the first successful pop; get and indexing may be  *)
(* called at any point.                                                     *)

LifoPush ==
    /\ popped = <<>>
    /\ \E v \in StackValues :
          LET r == push(stack, capacity, v) IN
          /\ op' = "push"
          /\ val' = v
          /\ num' = 0
          /\ res' = IF r.ok THEN "Ok" ELSE ValidationException
          /\ ret' = r.value
          /\ pre' = stack
          /\ stack' = r.stack
          /\ pushed' = IF r.ok THEN Append(pushed, v) ELSE pushed
          /\ UNCHANGED <<capacity, popped, arrayVars, vmVars, stringVars>>

LifoPop ==
    LET r == pop(stack) IN
    /\ op' = "pop"
    /\ val' = NoValue
    /\ num' = 0
    /\ res' = IF r.ok THEN "Ok" ELSE ValidationException
    /\ ret' = r.value
    /\ pre' = stack
    /\ stack' = r.stack
    /\ popped' = IF r.ok THEN Append(popped, r.value) ELSE popped
    /\ UNCHANGED <<capacity, pushed, arrayVars, vmVars, stringVars>>

LifoGet ==
    \E i \in 0..capacity :
        LET r == get(stack, i) IN
        /\ op' = "get"
        /\ val' = NoValue
        /\ num' = i
        /\ res' = IF r.ok THEN "Some" ELSE "None"
        /\ ret' = r.value
        /\ pre' = stack
        /\ stack' = r.stack
        /\ UNCHANGED <<capacity, pushed, popped, arrayVars, vmVars, stringVars>>

LifoIndex ==
    \E i \in 0..capacity :
        LET r == index_usize(stack, i) IN
        /\ op' = "index"
        /\ val' = NoValue
        /\ num' = i
        /\ res' = IF r.ok THEN "Ok" ELSE "panic"
        /\ ret' = r.value
        /\ pre' = stack
        /\ stack' = r.stack
        /\ UNCHANGED <<capacity, pushed, popped, arrayVars, vmVars, stringVars>>

InitLifo ==
    /\ InitStack
    /\ capacity <= MaxRun

NextLifo ==
    \/ LifoPush
    \/ LifoPop
    \/ LifoGet
    \/ LifoIndex

SpecLifo == InitLifo /\ [][NextLifo]_vars

-----------------------------------------------------------------------------
(* Properties of the operand stack *)

StackFamily == {"dup", "dup_x1", "dup_x2", "dup2", "dup2_x1", "dup2_x2", "swap"}

\* entries an operation of the duplicate/swap family reads
Reads(o) ==
    CASE o = "dup" -> 1
      [] o = "dup_x1" -> 2
      [] o = "dup_x2" -> 3
      [] o = "dup2" -> 2
      [] o = "dup2_x1" -> 3
      [] o = "dup2_x2" -> 4
      [] o = "swap" -> 2

\* entries it adds
Adds(o) ==
    CASE o \in {"dup", "dup_x1", "dup_x2"} -> 1
      [] o \in {"dup2", "dup2_x1", "dup2_x2"} -> 2
      [] o = "swap" -> 0

\* the entries of s below its top n
Below(s, n) == SubSeq(s, 1, Len(s) - n)

\* the k-th entry of s from the top (1 = top)
FromTop(s, k) == s[Len(s) - k + 1]

\* the top of the stack the listed permutation leaves, for the stack s it is applied to
Permuted(o, s) ==
    LET a == FromTop(s, 1)
        b == FromTop(s, 2)
        c == FromTop(s, 3)
        d == FromTop(s, 4)
    IN CASE o = "dup" -> <<a, a>>
         [] o = "dup_x1" -> <<a, b, a>>
         [] o = "dup_x2" -> <<a, c, b, a>>
         [] o = "dup2" -> <<b, a, b, a>>
         [] o = "dup2_x1" -> <<b, a, c, b, a>>
         [] o = "dup2_x2" -> <<b, a, d, c, b, a>>
         [] o = "swap" -> <<a, b>>

\* C1: whatever calls were made, successful or failing, the stack never holds
\* more entries than the capacity it was built with.
C1_LenWithinCapacity == Len(stack) <= capacity

\* a dup2 that ran out of room after its third push left the stack full
C1_Witness ==
    /\ op = "dup2"
    /\ res = ValidationException
    /\ Len(pre) = capacity - 1
    /\ Len(stack) = capacity

\* C2: an operation of the duplicate/swap family called with enough entries to
\* read and enough room for what it adds succeeds and leaves the listed
\* permutation on top of the untouched lower entries.
C2_FamilyPermutes ==
    (/\ op \in StackFamily
     /\ Len(pre) >= Reads(op)
     /\ Len(pre) + Adds(op) <= capacity)
    => /\ res = "Ok"
       /\ stack = Below(pre, Reads(op)) \o Permuted(op, pre)

\* dup2_x2 applied to four entries that are not all alike
C2_Witness ==
    /\ op = "dup2_x2"
    /\ res = "Ok"
    /\ Len(pre) >= 4
    /\ FromTop(pre, 1) # FromTop(pre, 2)
    /\ FromTop(pre, 3) # FromTop(pre, 4)
    /\ FromTop(pre, 1) # FromTop(pre, 4)

\* C3: an operation of the duplicate/swap family returns an error exactly when
\* the stack holds fewer entries than it reads or the result would not fit.
C3_FamilyErrorIff ==
    op \in StackFamily
    => ((res # "Ok") <=> (\/ Len(pre) < Reads(op)
                          \/ Len(pre) + Adds(op) > capacity))

\* dup2 with both entries to read and room for one entry only: overflow
C3_Witness ==
    /\ op = "dup2"
    /\ res = ValidationException
    /\ Len(pre) >= 2
    /\ Len(pre) + 1 = capacity

\* C4: push fails exactly on a full stack; a failing push changes nothing, a
\* successful one puts the value on top of the unchanged entries.
C4_PushFullOrAppends ==
    op = "push"
    => /\ (res # "Ok") <=> (Len(pre) = capacity)
       /\ res # "Ok" => stack = pre
       /\ res = "Ok" => stack = Append(pre, val)

\* a push refused by a full, non-empty stack
C4_Witness ==
    /\ op = "push"
    /\ res = ValidationException
    /\ Len(pre) = capacity
    /\ capacity >= 2

\* C5: pop fails exactly on the empty stack and otherwise removes and returns
\* the top entry, so the pops return the pushed values last-in first-out;
\* get(i) and indexing read the i-th entry from the bottom and change nothing.
C5_PopLifoGetReadOnly ==
    /\ op = "pop"
       => /\ (res # "Ok") <=> (pre = <<>>)
          /\ res # "Ok" => stack = pre
          /\ res = "Ok" => /\ ret = pre[Len(pre)]
                           /\ stack = SubSeq(pre, 1, Len(pre) - 1)
    /\ Len(popped) <= Len(pushed)
    /\ \A k \in 1..Len(popped) : popped[k] = pushed[Len(pushed) - k + 1]
    /\ stack = SubSeq(pushed, 1, Len(pushed) - Len(popped))
    /\ op = "get"
       => /\ stack = pre
          /\ num < Len(pre) => (res = "Some" /\ ret = pre[num + 1])
          /\ num >= Len(pre) => (res = "None" /\ ret = NoValue)
    /\ op = "index"
       => /\ stack = pre
          /\ num < Len(pre) => (res = "Ok" /\ ret = pre[num + 1])

\* three pushes of values not all alike have been popped back
C5_Witness ==
    /\ op = "pop"
    /\ res = "Ok"
    /\ Len(pushed) >= 3
    /\ Len(popped) = Len(pushed)
    /\ pushed[1] # pushed[2]
    /\ pushed[2] # pushed[3]

\* the wide values: 64-bit integral and 64-bit float
IsWideValue(v) == v.kind \in {"Long", "Double"}

\* C6 as stated: on a non-empty stack pop2 removes one entry when the top is
\* wide and two entries when it is not, and returns the entry that was on top.
C6_Pop2AsStated ==
    (op = "pop2" /\ pre # <<>>)
    => /\ res = "Ok"
       /\ ret = pre[Len(pre)]
       /\ Len(stack) = Len(pre) - (IF IsWideValue(pre[Len(pre)]) THEN 1 ELSE 2)
       /\ stack = SubSeq(pre, 1, Len(stack))

\* C6 as amended: the same, where a not wide top has an entry below it.
C6_Pop2OneOrTwo ==
    (/\ op = "pop2"
     /\ pre # <<>>
     /\ (IsWideValue(pre[Len(pre)]) \/ Len(pre) >= 2))
    => /\ res = "Ok"
       /\ ret = pre[Len(pre)]
       /\ Len(stack) = Len(pre) - (IF IsWideValue(pre[Len(pre)]) THEN 1 ELSE 2)
       /\ stack = SubSeq(pre, 1, Len(stack))

\* pop2 took a narrow top together with the wide entry below it
C6_Witness ==
    /\ op = "pop2"
    /\ res = "Ok"
    /\ Len(pre) >= 3
    /\ ~IsWideValue(pre[Len(pre)])
    /\ IsWideValue(pre[Len(pre) - 1])
    /\ Len(stack) = Len(pre) - 2

\* C7 as stated: truncate(n) fails exactly when n exceeds the capacity, and a
\* successful truncate(n) leaves n entries, the first n of before.
C7_TruncateAsStated ==
    op = "truncate"
    => /\ (res # "Ok") <=> (num > capacity)
       /\ res = "Ok" => /\ Len(stack) = num
                        /\ stack = SubSeq(pre, 1, num)

\* C7 as amended: a successful truncate(n) leaves min(n, size before) entries,
\* the first ones of before; a failing one changes nothing.
C7_TruncateKeepsPrefix ==
    op = "truncate"
    => /\ (res # "Ok") <=> (num > capacity)
       /\ res = "Ok" => /\ Len(stack) = (IF num < Len(pre) THEN num ELSE Len(pre))
                        /\ stack = SubSeq(pre, 1, Len(stack))
       /\ res # "Ok" => stack = pre

\* a truncate to fewer entries than held, and not to none
C7_Witness ==
    /\ op = "truncate"
    /\ res = "Ok"
    /\ num >= 1
    /\ num < Len(pre)
    /\ Len(stack) = num

-----------------------------------------------------------------------------
(* Properties of the managed array *)

\* the Value variant an element type requires
Required(t) == IF t \in IntTypes THEN "Int" ELSE t

\* C8: get_item_at(i) and set_item_at(i, v) return the out-of-bounds error
\* exactly when i is at or above the length, whatever the value v.
C8_OutOfBoundsIff ==
    op \in {"get_item_at", "set_item_at"}
    => ((res = ArrayIndexOutOfBoundsException) <=> (num >= len(apre)))

\* a write at index = length, of a value the element type does not take
C8_Witness ==
    /\ op = "set_item_at"
    /\ len(apre) >= 1
    /\ num = len(apre)
    /\ val.kind # Required(get_elements_type(apre))
    /\ res = ArrayIndexOutOfBoundsException

\* C9: a write in range of a value of the variant the element type requires
\* succeeds, and reading the index back returns that value.
C9_SetThenGet ==
    (/\ op = "set_item_at"
     /\ num < len(apre)
     /\ val.kind = Required(get_elements_type(apre)))
    => /\ res = "Ok"
       /\ get_item_at(array, num) = [res |-> "Ok", value |-> val]

\* a 64-bit value with a non-zero high word written to the last slot
C9_Witness ==
    /\ op = "set_item_at"
    /\ res = "Ok"
    /\ len(apre) >= 2
    /\ num = len(apre) - 1
    /\ val.kind = "Long"
    /\ val.hi # 0

\* C10: a write in range of a value of a variant the element type does not
\* accept fails with the type-validation error, and the index reads back as
\* it did before the call.
C10_MismatchRejected ==
    (/\ op = "set_item_at"
     /\ num < len(apre)
     /\ val.kind # Required(get_elements_type(apre))
     /\ val.kind # "Null" \/ get_elements_type(apre) \notin {"Object", "Array"})
    => /\ res = ValidationException
       /\ get_item_at(array, num) = get_item_at(apre, num)

\* an Int refused by an object array whose slot holds a reference
C10_Witness ==
    /\ op = "set_item_at"
    /\ res = ValidationException
    /\ get_elements_type(apre) = "Object"
    /\ val.kind = "Int"
    /\ num < len(apre)
    /\ get_item_at(apre, num).value.kind = "Object"

\* C11 as stated: writing Null in range succeeds exactly for the object and
\* array element types, zeroes the slot so that it reads back as Null, and
\* fails with the type-validation error for every primitive element type.
C11_NullAsStated ==
    (/\ op = "set_item_at"
     /\ num < len(apre)
     /\ val = ValueNull)
    => IF get_elements_type(apre) \in {"Object", "Array"}
       THEN /\ res = "Ok"
            /\ array.slots[num + 1] = ZeroSlot
            /\ get_item_at(array, num) = [res |-> "Ok", value |-> ValueNull]
       ELSE res = ValidationException

-----------------------------------------------------------------------------
(* Properties of the machine *)

\* the calls in progress that run the initializer of a class
ClinitCalls == {i \in 1..Len(ctl) : ctl[i].meth = "<clinit>"}

\* C12: from the moment the <clinit> of a class is invoked and while it runs,
\* nested calls included, get_static_instance of the class's id returns an
\* instance.
C12_StaticPresentDuringClinit ==
    \A i \in ClinitCalls : get_static_instance(class_id(resolved, ctl[i].class)) # 0

\* the interpreted initializer of String runs and has a nested call in progress
C12_Witness ==
    \E i \in ClinitCalls :
        /\ ctl[i].fn = "execute"
        /\ ctl[i].class = "java/lang/String"
        /\ Len(ctl) >= i + 3
        /\ get_static_instance(class_id(resolved, "java/lang/String")) = 1

\* C13: however often a class name is resolved, nested resolutions from a
\* running initializer included, every successful resolution returns the
\* class identity the first one returned, no class gets a second static
\* instance, and no initializer is invoked twice.
C13_ResolutionIdempotent ==
    /\ \A c \in ClassNames : clinit_runs[c] <= 1
    /\ \A id \in DOMAIN statics : statics[id] <= 1
    /\ (ret_info.fn = "get_or_resolve_class" /\ ret_info.result = Ok)
       => /\ ret_info.class_id # 0
          /\ ret_info.class_id = seen_id[ret_info.class]

\* String was resolved again from within its own running initializer
C13_Witness ==
    /\ ctl # <<>>
    /\ Top.fn = "execute"
    /\ Top.class = "java/lang/String"
    /\ Top.meth = "<clinit>"
    /\ ret_info.fn = "get_or_resolve_class"
    /\ ret_info.class = "java/lang/String"
    /\ ret_info.result = Ok
    /\ clinit_runs["java/lang/String"] = 1

\* C14 as stated: whenever no get_or_resolve_class call is in progress, every
\* class the class manager holds as resolved has exactly one static instance
\* recorded, also after resolutions in which an initializer failed.
C14_ResolvedHaveStatic ==
    (ctl = <<>> /\ ~panicked)
    => \A c \in ClassNames :
          class_id(resolved, c) # 0 => statics[class_id(resolved, c)] = 1

\* C15: whenever invoke returns, with success or failure, for a native or an
\* interpreted method and however deep the invocations nested in it went, the
\* call stack is as deep as when invoke was called, the frame it popped is
\* the one it pushed, and the expect on pop_frame has not aborted.
C15_FrameBalance ==
    /\ ~panicked
    /\ ret_info.fn = "invoke" => (ret_info.d1 = ret_info.d0 /\ ret_info.own)

\* a nested invoke of an interpreted method returned the failure of its frame
C15_Witness ==
    /\ ret_info.fn = "invoke"
    /\ ret_info.meth = "main"
    /\ ret_info.result = BodyFailed
    /\ ret_info.d0 >= 1
    /\ ret_info.d1 = ret_info.d0
    /\ ctl # <<>>

\* whether the running call is invoke or invoke_native on a native method
\* that has no callback registered
DispatchingUnregistered ==
    /\ ctl # <<>>
    /\ Top.fn \in {"invoke", "invoke_native"}
    /\ is_native(Method(Top.class, Top.meth))
    /\ ~get_method(Method(Top.class, Top.meth))

\* C16: invoke on a native method without a registered callback returns the
\* internal error for an unresolved native method, without aborting and with
\* no step of it touching the call stack or the statics table; with a
\* callback registered, invoke returns exactly what the callback returned.
C16_NativeDispatch ==
    /\ [](~panicked)
    /\ []((ret_info.fn = "invoke" /\ is_native(Method(ret_info.class, ret_info.meth)))
          => IF get_method(Method(ret_info.class, ret_info.meth))
             THEN ret_info.result = ret_info.inner
             ELSE ret_info.result = NotImplemented /\ ret_info.d1 = ret_info.d0)
    /\ [][DispatchingUnregistered
          => (frames' = frames /\ statics' = statics /\ ~panicked')]_vars

\* an unregistered native method was invoked from within a running frame
C16_Witness ==
    /\ ret_info.fn = "invoke"
    /\ ret_info.meth = "missing"
    /\ ret_info.result = NotImplemented
    /\ ret_info.d0 >= 1
    /\ ctl # <<>>
    /\ Top.fn = "execute"


\* whether the last extraction was applied to the object the last
\* create_java_lang_string_instance returned
ExtractedCreated ==
    /\ extracted.res # NoResult
    /\ string_object.class_id # 0
    /\ extracted.object = string_object

\* C17: for a text of single-byte (ASCII) chars, the empty text included,
\* extract_str_from_java_lang_string applied to the object returned by
\* create_java_lang_string_instance(text) returns a string equal to the text.
C17_AsciiRoundTrip ==
    (ExtractedCreated /\ \A i \in 1..Len(text) : text[i] \in AsciiChars)
        => (extracted.res = Ok /\ extracted.string = text)

\* the text "Hi" was built into a string object and extracted back
C17_Witness ==
    /\ ExtractedCreated
    /\ text = <<72, 105>>
    /\ get_field(string_object, 0) = ValueArrayOf("Char", <<ValueInt(72), ValueInt(105)>>)
    /\ extracted.res = Ok
    /\ extracted.string = <<72, 105>>

\* C18: extract_str_from_java_lang_string returns the validation error and no
\* string whenever the object's class id is unknown to the class manager, its
\* class is not java/lang/String, or its field 0 holds no array.
C18_ValidationErrors ==
    (/\ extracted.res # NoResult
     /\ \/ extracted.class_name # "java/lang/String"
        \/ get_field(extracted.object, 0).kind # "Array")
        => (extracted.res = ValidationException /\ extracted.string = <<>>)

\* an object of class java/lang/String whose field 0 holds no array was
\* refused
C18_Witness ==
    /\ extracted.res = ValidationException
    /\ extracted.class_name = "java/lang/String"
    /\ get_field(extracted.object, 0) = ValueNull
    /\ class_id(resolved, "java/lang/String") = extracted.object.class_id

\* C19: for every text, extract_str_from_java_lang_string applied to the
\* object built by create_java_lang_string_instance(text) returns a string or
\* an error and never aborts the process.
C19_NeverAborts ==
    ExtractedCreated => (extracted.res \in {Ok, ValidationException} /\ ~panicked)


\* C20 as stated: get_item_at in range on an array of object references or
\* of arrays returns Null when the slot holds the all-zero pattern, as every
\* slot of a freshly allocated array does, and the stored reference otherwise.
C20_ZeroSlotReadsNull ==
    (/\ op = "get_item_at"
     /\ num < len(apre)
     /\ get_elements_type(apre) \in {"Object", "Array"})
    => LET slot == apre.slots[num + 1] IN
       /\ res = "Ok"
       /\ IF slot = ZeroSlot THEN ret = ValueNull
          ELSE ret = [kind |-> get_elements_type(apre), lo |-> slot.lo, hi |-> slot.hi]


-----------------------------------------------------------------------------
(* Properties of arrays on shared storage *)

\* C21: a handle and its clones observe the same state: is_same_as is true
\* for them, and after set_item_at(i, v) succeeds through one of them
\* get_item_at(i) through each of them returns v; is_same_as is false for two
\* arrays on distinct storage, even when their length, element type and
\* contents are equal.
C21_AliasesAgree ==
    /\ \A a \in 1..Len(handles), b \in 1..Len(handles) :
          IF origin[a] = origin[b]
          THEN /\ is_same_as(handles[a], handles[b])
               /\ len(block_of(handles[a])) = len(block_of(handles[b]))
               /\ (op = "set_item_at" /\ res = "Ok" /\ via = a)
                     => get_item_at(block_of(handles[b]), num)
                            = [res |-> "Ok", value |-> val]
          ELSE ~is_same_as(handles[a], handles[b])
    /\ op = "is_same_as"
          => res = IF origin[via] = origin[other] THEN "true" ELSE "false"

\* a write through a clone of the first array succeeded and is read through
\* the first array, while the second array, of the same type and length,
\* holds something else
C21_Witness ==
    /\ op = "set_item_at"
    /\ res = "Ok"
    /\ Len(handles) = 3
    /\ origin[3] = 1
    /\ via = 3
    /\ val = ValueLong(3, 1)
    /\ get_item_at(block_of(handles[1]), num).value = val
    /\ get_item_at(block_of(handles[2]), num).value # val
    /\ ~is_same_as(handles[2], handles[3])


-----------------------------------------------------------------------------
(* Properties of the machine: the order of initialization *)

\* the calls of get_or_resolve_class in progress that hold a fresh resolution
FreshResolutions ==
    {i \in 1..Len(ctl) : /\ ctl[i].fn = "get_or_resolve_class"
                         /\ ctl[i].pc \in {"loop", "after_init"}}

\* the position of a class in the to-initialize list of a resolution of c
ListPosition(c, x) == IndexOf(lineage(c), x)

\* whether nothing of the initialization of class x has happened
Uninitialized(x) ==
    /\ get_static_instance(class_id(resolved, x)) = 0
    /\ clinit_runs[x] = 0

\* C22: a fresh resolution is initialized in list order, one class at a time:
\* while the initializer of a class of the list runs or is yet to run, no
\* later class of the list has a static instance or a started initializer,
\* and the first failure of an initializer ends get_or_resolve_class with
\* that failure, the remaining classes left uninitialized.
C22_InitInListOrder ==
    /\ [](\A i \in FreshResolutions :
            /\ \A k \in 1..Len(ctl[i].todo) :
                  /\ Uninitialized(ctl[i].todo[k])
                  /\ \A j \in 1..(k - 1) :
                        ListPosition(ctl[i].class, ctl[i].todo[j])
                            < ListPosition(ctl[i].class, ctl[i].todo[k])
            /\ (ctl[i].pc = "after_init" /\ i < Len(ctl))
                  => /\ ctl[i + 1].fn = "init_class"
                     /\ \A k \in 1..Len(ctl[i].todo) :
                           ListPosition(ctl[i].class, ctl[i + 1].class)
                               < ListPosition(ctl[i].class, ctl[i].todo[k]))
    /\ [][(Running("get_or_resolve_class", "after_init") /\ result # Ok)
          => /\ ctl' = SubSeq(ctl, 1, Len(ctl) - 1)
             /\ result' = result
             /\ statics' = statics
             /\ clinit_runs' = clinit_runs
             /\ \A k \in 1..Len(Top.todo) : Uninitialized(Top.todo[k])]_vars

\* the initializer of Object has failed during a fresh resolution of String,
\* whose initialization is still to come
C22_Witness ==
    /\ Running("get_or_resolve_class", "after_init")
    /\ Top.class = "java/lang/String"
    /\ Top.todo = <<"java/lang/String">>
    /\ result = BodyFailed
    /\ get_static_instance(class_id(resolved, "java/lang/Object")) = 1
    /\ clinit_runs["java/lang/Object"] = 1
    /\ Uninitialized("java/lang/String")


-----------------------------------------------------------------------------
(* Properties of the operand stack: failing operations *)

\* C23 as stated: when pop2 or an operation of the duplicate/swap family
\* returns an error, the stack holds exactly the entries it held before the
\* call.
C23_FailureKeepsStack ==
    (op \in StackFamily \cup {"pop2"} /\ res # "Ok") => stack = pre


-----------------------------------------------------------------------------
(* Properties of the managed array: what a write leaves alone *)

\* C24: a set_item_at(i, v) call, successful or failing, leaves every slot
\* other than slot i as get_item_at read it before, and no call changes what
\* len() and get_elements_type() return.
C24_WriteTouchesOneSlot ==
    /\ [](op = "set_item_at"
          => /\ \A j \in 0..(len(apre) - 1) :
                   j # num => get_item_at(array, j) = get_item_at(apre, j)
             /\ len(array) = len(apre)
             /\ get_elements_type(array) = get_elements_type(apre)
             /\ Len(array.slots) = Len(apre.slots))
    /\ [][/\ len(array') = len(array)
          /\ get_elements_type(array') = get_elements_type(array)]_vars

\* a successful write to the last slot of an array whose first slot holds a
\* value written before
C24_Witness ==
    /\ op = "set_item_at"
    /\ res = "Ok"
    /\ len(apre) >= 2
    /\ num = len(apre) - 1
    /\ apre.slots[1] # ZeroSlot
    /\ array.slots[num + 1] # apre.slots[num + 1]
    /\ array.slots[1] = apre.slots[1]

====
